---- MODULE Spec2Model ----
(***************************************************************************)
(* pixelgrind: the per-pixel anti-aliasing classifier (antialiased), the   *)
(* YIQ colour metric it uses (colorDelta), the ground-truth comparison     *)
(* (doesPixelRGBDirectlyMatch) and the evaluation script that scans an     *)
(* image, keeps the confusion counts and paints the diagnostic rasters.    *)
(*                                                                         *)
(* Numbers.  colorDelta computes in IEEE doubles.  The model computes the  *)
(* same quantities exactly: a luma / chroma value v is kept as the pair    *)
(* <<hi, lo>> with 0 <= lo < 10000 and                                     *)
(*        v = (hi * 10000 + lo) / (255 * 10^8),                            *)
(* the 8-decimal coefficients being split in two 4-digit limbs so that     *)
(* every intermediate stays inside 32 bits.  For opaque pixels the luma    *)
(* form 29889531*a + 58662247*b + 11448223*c has no zero with              *)
(* |a|,|b|,|c| <= 255 other than a = b = c = 0, and a non-zero exact value *)
(* is at least 1/(255*10^8) in magnitude, far above the rounding error of  *)
(* the double computation: sign and order of the doubles are those of the  *)
(* exact values on the pixel values used here.                             *)
(***************************************************************************)
EXTENDS Integers, Sequences, FiniteSets, TLC

VARIABLES img, imgNoAa, pc, x, y, results, groundTruth, groundTruthImage,
          output, overlay, differentialImage, report, written, call

vars == <<img, imgNoAa, pc, x, y, results, groundTruth, groundTruthImage,
          output, overlay, differentialImage, report, written, call>>

runVars == <<pc, x, y, results, groundTruth, groundTruthImage,
             output, overlay, differentialImage, report, written>>

(***************************************************************************)
(* Bounds of the model.                                                    *)
(***************************************************************************)
MaxW == 3
MaxH == 3

Min(a, b) == IF a < b THEN a ELSE b
Max(a, b) == IF a > b THEN a ELSE b

(***************************************************************************)
(* Exact values: <<hi, lo>> stands for (hi*10000 + lo) / (255 * 10^8).     *)
(***************************************************************************)
Norm(h, l) == <<h + (l \div 10000), l % 10000>>
Zero == <<0, 0>>
IsZero(v) == v = Zero
Less(a, b) == a[1] < b[1] \/ (a[1] = b[1] /\ a[2] < b[2])
Sgn(v) == IF IsZero(v) THEN 0 ELSE IF Less(v, Zero) THEN -1 ELSE 1

(***************************************************************************)
(* colorDelta, src/eslint.config.js 155-192.                               *)
(***************************************************************************)
\* the background colour the pixels are blended with (lines 173-175);
\* (k / 1.618033988749895 | 0) is floor(k / phi) for k >= 0, and
\* (k * 10^6) \div 1618034 equals it for every k up to 2000.
rb(k) == 48 + 159 * (k % 2)
gb(k) == 48 + 159 * (((k * 1000000) \div 1618034) % 2)
bb(k) == 48 + 159 * (((k * 1000000) \div 2618034) % 2)

\* the blend of lines 176-178 with the factor da left out
ChannelDelta_noAlphaDelta(c1, a1, c2, a2, bg) ==
    IF a1 < 255 \/ a2 < 255
    THEN c1 * a1 - c2 * a2 - bg
    ELSE 255 * (c1 - c2)

\* 255 * (channel delta): lines 165-167 for opaque pixels, 176-178 when
\* either pixel is not opaque.
ChannelDelta(c1, a1, c2, a2, bg) ==
    IF a1 < 255 \/ a2 < 255
    THEN c1 * a1 - c2 * a2 - bg * (a1 - a2)
    ELSE 255 * (c1 - c2)

\* line 181: y = dr * 0.29889531 + dg * 0.58662247 + db * 0.11448223
LumaY(nr, ng, nb) ==
    Norm(nr * 2988 + ng * 5866 + nb * 1144, nr * 9531 + ng * 2247 + nb * 8223)
\* line 185: i = dr * 0.59597799 - dg * 0.27417610 - db * 0.32180189
ChromaI(nr, ng, nb) ==
    Norm(nr * 5959 - ng * 2741 - nb * 3218, nr * 7799 - ng * 7610 - nb * 189)
\* line 186: q = dr * 0.21147017 - dg * 0.52261711 + db * 0.31114694
ChromaQ(nr, ng, nb) ==
    Norm(nr * 2114 - ng * 5226 + nb * 3111, nr * 7017 - ng * 1711 + nb * 4694)

\* line 170 left out
SamePixel_never(dr, dg, db, da) == FALSE
\* line 170: the exact-equality short cut
SamePixel(dr, dg, db, da) == dr = 0 /\ dg = 0 /\ db = 0 /\ da = 0

\* line 172: the pixels are blended with the background
Blends(a1, a2) == a1 < 255 \/ a2 < 255

\* line 191 with the test turned round: y < 0 ? -delta : delta
SignedDelta_flipped(yv, iv, qv) ==
    [tag |-> "delta", neg |-> Less(yv, Zero), y |-> yv, i |-> iv, q |-> qv]

\* line 191: y > 0 ? -delta : delta.  delta = 0.5053 y^2 + 0.299 i^2 +
\* 0.1957 q^2 is zero exactly when y, i and q are, and positive otherwise.
SignedDelta(yv, iv, qv) ==
    [tag |-> "delta", neg |-> Less(Zero, yv), y |-> yv, i |-> iv, q |-> qv]

\* The returned number: [tag |-> "y", y |-> v] is the number v;
\* [tag |-> "delta", neg, y, i, q] is the number
\* (IF neg THEN -1 ELSE 1) * (0.5053 y^2 + 0.299 i^2 + 0.1957 q^2).
\* blended tells whether the call went through lines 173-178.
colorDelta(img1, img2, k, m, yOnly) ==
    LET r1 == img1[k]
        g1 == img1[k + 1]
        b1 == img1[k + 2]
        a1 == img1[k + 3]
        r2 == img2[m]
        g2 == img2[m + 1]
        b2 == img2[m + 2]
        a2 == img2[m + 3]
        nr == ChannelDelta(r1, a1, r2, a2, rb(k))
        ng == ChannelDelta(g1, a1, g2, a2, gb(k))
        nb == ChannelDelta(b1, a1, b2, a2, bb(k))
    IN  IF SamePixel(r1 - r2, g1 - g2, b1 - b2, a1 - a2)
        THEN [tag |-> "y", y |-> Zero, blended |-> FALSE]
        ELSE IF yOnly
             THEN [tag |-> "y", y |-> LumaY(nr, ng, nb), blended |-> Blends(a1, a2)]
             ELSE SignedDelta(LumaY(nr, ng, nb), ChromaI(nr, ng, nb),
                              ChromaQ(nr, ng, nb))
                     @@ [blended |-> Blends(a1, a2)]

\* the sign of a number returned by colorDelta
Sign(d) ==
    IF d.tag = "y" THEN Sgn(d.y)
    ELSE IF IsZero(d.y) /\ IsZero(d.i) /\ IsZero(d.q) THEN 0
    ELSE IF d.neg THEN -1 ELSE 1

(***************************************************************************)
(* antialiased, src/eslint.config.js 45-117.                               *)
(***************************************************************************)
\* lines 46-49: the clamped bounding box of the neighbourhood
ClampLo(c) == Max(c - 1, 0)
\* the upper clamp reaching one cell too far
ClampHi_tooFar(c, size) == Min(c + 2, size - 1)
ClampHi(c, size) == Min(c + 1, size - 1)

\* line 51 counting one for each side of the image the pixel lies on
EdgeSeed_perSide(cx, cy, x0, y0, x2, y2) ==
    (IF cx = x0 THEN 1 ELSE 0) + (IF cx = x2 THEN 1 ELSE 0)
        + (IF cy = y0 THEN 1 ELSE 0) + (IF cy = y2 THEN 1 ELSE 0)
\* line 51: a pixel on the border of the image starts with one equal sibling
EdgeSeed(cx, cy, x0, y0, x2, y2) ==
    IF cx = x0 \/ cx = x2 \/ cy = y0 \/ cy = y2 THEN 1 ELSE 0

\* lines 60-62: the neighbours in the order the loops visit them
\* (nx outer, ny inner), the centre skipped
Neighbours(cx, cy, x0, y0, x2, y2) ==
    LET rows == y2 - y0 + 1
        cells == [j \in 1..((x2 - x0 + 1) * rows) |->
                     <<x0 + ((j - 1) \div rows), y0 + ((j - 1) % rows)>>]
    IN  SelectSeq(cells, LAMBDA c : c # <<cx, cy>>)

\* the bound of line 71 off by one
TooManySiblings_offByOne(zeroes) == zeroes > 1
\* line 71: more than 2 equal siblings
TooManySiblings(zeroes) == zeroes > 2

\* lines 68-84 with <= and >= in the comparisons of lines 74 and 80
Visit_lastWins(s, delta, nx, ny) ==
    IF IsZero(delta)
    THEN [s EXCEPT !.zeroes = s.zeroes + 1,
                   !.returned = TooManySiblings(s.zeroes + 1)]
    ELSE IF ~Less(s.min, delta)
         THEN [s EXCEPT !.min = delta, !.minX = nx, !.minY = ny]
         ELSE IF ~Less(delta, s.max)
              THEN [s EXCEPT !.max = delta, !.maxX = nx, !.maxY = ny]
              ELSE s
\* lines 68-84: one neighbour.  s.returned is set by the return of line 71.
Visit(s, delta, nx, ny) ==
    IF IsZero(delta)
    THEN [s EXCEPT !.zeroes = s.zeroes + 1,
                   !.returned = TooManySiblings(s.zeroes + 1)]
    ELSE IF Less(delta, s.min)
         THEN [s EXCEPT !.min = delta, !.minX = nx, !.minY = ny]
         ELSE IF Less(s.max, delta)
              THEN [s EXCEPT !.max = delta, !.maxX = nx, !.maxY = ny]
              ELSE s

\* lines 60-86: the two loops, from the j-th neighbour on
RECURSIVE Scan(_, _, _, _, _, _)
Scan(data, pos, width, cells, j, s) ==
    IF j > Len(cells) \/ s.returned
    THEN s
    ELSE LET nx == cells[j][1]
             ny == cells[j][2]
             m == (ny * width + nx) * 4
             delta == colorDelta(data, data, pos * 4, m, TRUE).y
         IN  Scan(data, pos, width, cells, j + 1,
                  [Visit(s, delta, nx, ny) EXCEPT
                      !.visited = Append(s.visited, <<nx, ny>>),
                      !.reads = s.reads \cup (pos * 4 .. pos * 4 + 3)
                                        \cup (m .. m + 3)])

\* the check of line 89 without its second half
NoExtremes_minOnly(min, max) == IsZero(min)
\* the check of line 89 inverted
NoExtremes_inverted(min, max) == ~(IsZero(min) \/ IsZero(max))
\* line 89: no darker or no brighter sibling
NoExtremes(min, max) == IsZero(min) \/ IsZero(max)

\* lines 109-113
isIntermediate(centerR, centerG, centerB, minR, minG, minB, maxR, maxG, maxB) ==
    /\ centerR >= Min(minR, maxR) /\ centerR <= Max(minR, maxR)
    /\ centerG >= Min(minG, maxG) /\ centerG <= Max(minG, maxG)
    /\ centerB >= Min(minB, maxB) /\ centerB <= Max(minB, maxB)

\* lines 89-116, on the locals s the loops left
Decide(data, pos, width, seed, s) ==
    LET minPos == s.minY * width + s.minX
        maxPos == s.maxY * width + s.maxX
        rgb == {pos * 4 + c : c \in 0..2} \cup {minPos * 4 + c : c \in 0..2}
                  \cup {maxPos * 4 + c : c \in 0..2}
        base == [zeroes |-> s.zeroes, min |-> s.min, max |-> s.max,
                 minX |-> s.minX, minY |-> s.minY,
                 maxX |-> s.maxX, maxY |-> s.maxY,
                 visited |-> s.visited, seed |-> seed]
    IN  IF s.returned
        THEN base @@ [exit |-> "siblings", reads |-> s.reads, ret |-> FALSE]
        ELSE IF NoExtremes(s.min, s.max)
             THEN base @@ [exit |-> "extremes", reads |-> s.reads, ret |-> FALSE]
             ELSE base @@
                  [exit |-> "interval", reads |-> s.reads \cup rgb,
                   ret |-> isIntermediate(
                       data[pos * 4], data[pos * 4 + 1], data[pos * 4 + 2],
                       data[minPos * 4], data[minPos * 4 + 1], data[minPos * 4 + 2],
                       data[maxPos * 4], data[maxPos * 4 + 1], data[maxPos * 4 + 2])]

\* lines 46-57: the locals before the loops
Locals(seed) ==
    [zeroes |-> seed, min |-> Zero, max |-> Zero,
     minX |-> 0, minY |-> 0, maxX |-> 0, maxY |-> 0,
     returned |-> FALSE, visited |-> <<>>, reads |-> {}]

ScanBox(data, cx, cy, width, x0, y0, x2, y2) ==
    Decide(data, cy * width + cx, width, EdgeSeed(cx, cy, x0, y0, x2, y2),
           Scan(data, cy * width + cx, width, Neighbours(cx, cy, x0, y0, x2, y2),
                1, Locals(EdgeSeed(cx, cy, x0, y0, x2, y2))))

\* The whole call: the final values of its locals, the neighbours visited,
\* the buffer indices read, the place it returned from (exit) and the value
\* returned (ret).
antialiasedCall(data, cx, cy, width, height) ==
    ScanBox(data, cx, cy, width, ClampLo(cx), ClampLo(cy),
            ClampHi(cx, width), ClampHi(cy, height))

antialiased(data, cx, cy, width, height) ==
    antialiasedCall(data, cx, cy, width, height).ret

(***************************************************************************)
(* Images: a decoded PNG, {width, height, data}, data the RGBA bytes in    *)
(* row-major order, 4 per pixel.                                           *)
(***************************************************************************)
Black == <<0, 0, 0, 255>>
Grey  == <<128, 128, 128, 255>>
White == <<255, 255, 255, 255>>
Red   == <<255, 0, 0, 255>>
Ghost == <<255, 255, 255, 0>>
Palette == {Black, Grey, White, Red, Ghost}

MakeImage(w, h, px) ==
    [width |-> w, height |-> h,
     data |-> [b \in 0..(4 * w * h - 1) |-> px[b \div 4][(b % 4) + 1]]]

\* an image of one colour but for (at most) two pixels
Spotted(w, h, base, p1, c1, p2, c2) ==
    MakeImage(w, h, [p \in 0..(w * h - 1) |->
                        IF p = p2 THEN c2 ELSE IF p = p1 THEN c1 ELSE base])

SpottedImages(bases, colours) ==
    UNION {{Spotted(w, h, base, p1, c1, p2, c2) :
               base \in bases, c1 \in colours, c2 \in colours,
               p1 \in 0..(w * h - 1), p2 \in 0..(w * h - 1)} :
           w \in 1..MaxW, h \in 1..MaxH}

\* the 3x3 images of the end-to-end scenarios: a grey centre with black
\* orthogonal and white diagonal neighbours, and the black/white checkerboard
Ring(centre, orthogonal, diagonal) ==
    MakeImage(3, 3, [p \in 0..8 |->
        IF p = 4 THEN centre ELSE IF p % 2 = 1 THEN orthogonal ELSE diagonal])
ScenarioImages == {Ring(Grey, Black, White), Ring(Black, White, Black),
                   Ring(White, Black, White)}

\* a black, a grey and white columns
Stripes(w, h) ==
    MakeImage(w, h, [p \in 0..(w * h - 1) |->
        IF p % w = 0 THEN Black ELSE IF p % w = 1 THEN Grey ELSE White])
\* the 3x3 striped image with a third grey neighbour of the centre
Crowded ==
    MakeImage(3, 3, [p \in 0..8 |->
        IF p = 3 THEN Grey
        ELSE IF p % 3 = 0 THEN Black ELSE IF p % 3 = 1 THEN Grey ELSE White])
StripedImages == {Stripes(w, h) : w \in 1..MaxW, h \in 1..MaxH} \cup {Crowded}

Images ==
    SpottedImages({Black, White, Ghost}, Palette) \cup ScenarioImages
        \cup StripedImages

Pixel(image, px, py) ==
    LET b == (py * image.width + px) * 4
    IN  <<image.data[b], image.data[b + 1], image.data[b + 2], image.data[b + 3]>>

(***************************************************************************)
(* The classifier applied to one pixel of one image.                       *)
(***************************************************************************)
Idle ==
    /\ pc = "idle" /\ x = 0 /\ y = 0
    /\ results = <<>> /\ groundTruth = <<>> /\ groundTruthImage = <<>>
    /\ output = <<>> /\ overlay = <<>> /\ differentialImage = <<>>
    /\ report = <<>> /\ written = <<>>

InitAA ==
    /\ img \in Images
    /\ imgNoAa = img
    /\ Idle
    /\ call = [fn |-> "none"]

\* antialiased(img.data, cx, cy, img.width, img.height) is called; first
\* keeps the value the first call at this position returned
Classify ==
    /\ call.fn = "none"
    /\ \E cx \in 0..(img.width - 1), cy \in 0..(img.height - 1) :
          LET r == antialiasedCall(img.data, cx, cy, img.width, img.height)
          IN  call' = [fn |-> "antialiased", x |-> cx, y |-> cy, r |-> r,
                       first |-> r.ret, changed |-> FALSE]
    /\ UNCHANGED <<img, imgNoAa, runVars>>

LocalPalette == {Black, Grey, White}

SetPixel(image, px, py, colour) ==
    [image EXCEPT !.data =
        [b \in DOMAIN image.data |->
            IF b \div 4 = py * image.width + px
            THEN colour[(b % 4) + 1] ELSE image.data[b]]]

\* a pixel more than one cell away from the classified position changes
\* and the classifier is called again at the same position
Reclassify ==
    /\ call.fn = "antialiased" /\ ~call.changed
    /\ \E fx \in 0..(img.width - 1), fy \in 0..(img.height - 1), c \in LocalPalette :
          /\ fx - call.x \notin -1..1 \/ fy - call.y \notin -1..1
          /\ Pixel(img, fx, fy) # c
          /\ img' = SetPixel(img, fx, fy, c)
          /\ call' = [call EXCEPT
                        !.r = antialiasedCall(img'.data, call.x, call.y,
                                              img.width, img.height),
                        !.changed = TRUE]
    /\ UNCHANGED <<imgNoAa, runVars>>

NextAA == Classify

SpecAA == InitAA /\ [][NextAA]_vars

InitLocal ==
    /\ img \in SpottedImages({Black, White}, LocalPalette) \cup ScenarioImages
    /\ imgNoAa = img
    /\ Idle
    /\ call = [fn |-> "none"]

NextLocal == Classify \/ Reclassify

SpecLocal == InitLocal /\ [][NextLocal]_vars

(***************************************************************************)
(* colorDelta applied to two pixels of one buffer, in both orders.         *)
(***************************************************************************)
DeltaPalette ==
    {<<c[1], c[2], c[3], a>> : c \in {Black, Grey, White, Red}, a \in {0, 128, 255}}

\* a buffer of MaxW * MaxH pixels, c1 at the even and c2 at the odd places
PairImage(c1, c2) ==
    MakeImage(MaxW, MaxH, [p \in 0..(MaxW * MaxH - 1) |->
                              IF p % 2 = 0 THEN c1 ELSE c2])

InitDelta ==
    /\ img \in {PairImage(c1, c2) : c1 \in DeltaPalette, c2 \in DeltaPalette}
    /\ imgNoAa = img
    /\ Idle
    /\ call = [fn |-> "none"]

\* colorDelta(img, img, k, m, yOnly) and colorDelta(img, img, m, k, yOnly)
Compare ==
    /\ call.fn = "none"
    /\ \E p \in 0..(img.width * img.height - 1),
          q \in 0..(img.width * img.height - 1), yOnly \in BOOLEAN :
          call' = [fn |-> "colorDelta", k |-> 4 * p, m |-> 4 * q, yOnly |-> yOnly,
                   r |-> colorDelta(img.data, img.data, 4 * p, 4 * q, yOnly),
                   swapped |-> colorDelta(img.data, img.data, 4 * q, 4 * p, yOnly)]
    /\ UNCHANGED <<img, imgNoAa, runVars>>

NextDelta == Compare

SpecDelta == InitDelta /\ [][NextDelta]_vars

(***************************************************************************)
(* doesPixelRGBDirectlyMatch, src/eslint.config.js 209-226.                *)
(***************************************************************************)
\* line 210 with the heights forgotten
SizesDiffer_widthOnly(img1, img2) == img1.width # img2.width
\* line 210
SizesDiffer(img1, img2) == img1.width # img2.width \/ img1.height # img2.height

\* data[i] of a typed array: undefined, here -1, beyond its end
At(data, i) == IF i \in DOMAIN data THEN data[i] ELSE -1

\* lines 214-225 with the alpha compared as well
SameRGB_andAlpha(img1, img2, px, py) ==
    \A c \in 0..3 :
        At(img1.data, (img1.width * py + px) * 4 + c)
            = At(img2.data, (img1.width * py + px) * 4 + c)
\* lines 214-225
SameRGB(img1, img2, px, py) ==
    \A c \in 0..2 :
        At(img1.data, (img1.width * py + px) * 4 + c)
            = At(img2.data, (img1.width * py + px) * 4 + c)

\* threw: the Error of line 211 was thrown; otherwise value is returned
doesPixelRGBDirectlyMatch(img1, img2, px, py) ==
    IF SizesDiffer(img1, img2)
    THEN [threw |-> TRUE, value |-> FALSE]
    ELSE [threw |-> FALSE, value |-> SameRGB(img1, img2, px, py)]

(***************************************************************************)
(* The evaluation script, src/unnamed/part_001.                            *)
(***************************************************************************)
AA_PIXEL_RED == 245
AA_PIXEL_GREEN == 93
AA_PIXEL_BLUE == 230
AA_PIXEL_ALPHA_OVERLAY == 255
AA_PIXEL_ALPHA_OUTPUT == 255

AA_FALSE_POSITIVE_RED == 255
AA_FALSE_POSITIVE_GREEN == 0
AA_FALSE_POSITIVE_BLUE == 0
AA_FALSE_POSITIVE_ALPHA == 255

AA_FALSE_NEGATIVE_RED == 0
AA_FALSE_NEGATIVE_GREEN == 0
AA_FALSE_NEGATIVE_BLUE == 255
AA_FALSE_NEGATIVE_ALPHA == 255

AA_GROUND_TRUTH_RED == 0
AA_GROUND_TRUTH_GREEN == 153
AA_GROUND_TRUTH_BLUE == 255
AA_GROUND_TRUTH_ALPHA == 255

\* new PNG({ width, height }): a zero-filled buffer of 4 bytes per pixel
NewPNG(width, height) == [b \in 0..(4 * width * height - 1) |-> 0]
\* output.data.fill(255), line 95
FilledPNG(width, height) == [b \in 0..(4 * width * height - 1) |-> 255]

\* the write running one byte into the next pixel
Put_spill(data, pixelIdx, r, g, b, a) ==
    [c \in DOMAIN data |->
        IF c = pixelIdx \/ c = pixelIdx + 4 THEN r
        ELSE IF c = pixelIdx + 1 THEN g
        ELSE IF c = pixelIdx + 2 THEN b
        ELSE IF c = pixelIdx + 3 THEN a
        ELSE data[c]]
\* four consecutive bytes of a raster, from pixelIdx on
Put(data, pixelIdx, r, g, b, a) ==
    [c \in DOMAIN data |->
        IF c = pixelIdx THEN r
        ELSE IF c = pixelIdx + 1 THEN g
        ELSE IF c = pixelIdx + 2 THEN b
        ELSE IF c = pixelIdx + 3 THEN a
        ELSE data[c]]

\* lines 146-151: the source channel under the highlight colour, stored in
\* a byte.  aaLevel = AA_PIXEL_ALPHA_OVERLAY / 255.0 is 1 here and the
\* result is the highlight channel itself.
Composite(source, highlight) ==
    (source * (255 - AA_PIXEL_ALPHA_OVERLAY) + AA_PIXEL_ALPHA_OVERLAY * highlight)
        \div 255

\* lines 104-110
NoResults ==
    [aaPixels |-> 0, expectedAaPixels |-> 0, falseNegatives |-> 0,
     falsePositives |-> 0, truePositives |-> 0]

\* lines 124, 139, 155-169 with the false negatives counted on the
\* wrong value of the ground truth
Count_wrongTruth(r, isSame, antiAliased) ==
    [aaPixels |-> r.aaPixels + (IF antiAliased THEN 1 ELSE 0),
     expectedAaPixels |-> r.expectedAaPixels + (IF isSame THEN 0 ELSE 1),
     falseNegatives |-> r.falseNegatives + (IF ~antiAliased /\ isSame THEN 1 ELSE 0),
     falsePositives |-> r.falsePositives + (IF antiAliased /\ isSame THEN 1 ELSE 0),
     truePositives |-> r.truePositives + (IF antiAliased /\ ~isSame THEN 1 ELSE 0)]
\* lines 124, 139, 155-169: the counters after a pixel whose ground truth
\* is 0 (isSame) or 1
Count(r, isSame, antiAliased) ==
    [aaPixels |-> r.aaPixels + (IF antiAliased THEN 1 ELSE 0),
     expectedAaPixels |-> r.expectedAaPixels + (IF isSame THEN 0 ELSE 1),
     falseNegatives |-> r.falseNegatives + (IF ~antiAliased /\ ~isSame THEN 1 ELSE 0),
     falsePositives |-> r.falsePositives + (IF antiAliased /\ isSame THEN 1 ELSE 0),
     truePositives |-> r.truePositives + (IF antiAliased /\ ~isSame THEN 1 ELSE 0)]

\* lines 155-174 with the true positives painted as well
PaintDifferential_truePositives(data, pixelIdx, isSame, antiAliased) ==
    IF antiAliased
    THEN Put(data, pixelIdx, AA_FALSE_POSITIVE_RED, AA_FALSE_POSITIVE_GREEN,
             AA_FALSE_POSITIVE_BLUE, AA_FALSE_POSITIVE_ALPHA)
    ELSE IF ~isSame
         THEN Put(data, pixelIdx, AA_FALSE_NEGATIVE_RED, AA_FALSE_NEGATIVE_GREEN,
                  AA_FALSE_NEGATIVE_BLUE, AA_FALSE_NEGATIVE_ALPHA)
         ELSE data
\* lines 155-174: the pixel of the differential raster
PaintDifferential(data, pixelIdx, isSame, antiAliased) ==
    IF antiAliased /\ isSame
    THEN Put(data, pixelIdx, AA_FALSE_POSITIVE_RED, AA_FALSE_POSITIVE_GREEN,
             AA_FALSE_POSITIVE_BLUE, AA_FALSE_POSITIVE_ALPHA)
    ELSE IF ~antiAliased /\ ~isSame
         THEN Put(data, pixelIdx, AA_FALSE_NEGATIVE_RED, AA_FALSE_NEGATIVE_GREEN,
                  AA_FALSE_NEGATIVE_BLUE, AA_FALSE_NEGATIVE_ALPHA)
         ELSE data

\* lines 123-175: the counters, the ground truth and the rasters st after
\* the pixel at pixelIdx, whose reference pixel has the same RGB or not
\* (isSame) and which the classifier found anti-aliased or not (antiAliased)
Account(st, pixelIdx, noAaPixelIdx, isSame, antiAliased) ==
    [results |-> Count(st.results, isSame, antiAliased),
     groundTruth |-> [st.groundTruth EXCEPT ![noAaPixelIdx] = IF isSame THEN 0 ELSE 1],
     groundTruthImage |->
        IF isSame
        THEN Put(st.groundTruthImage, pixelIdx, 255, 255, 255, 0)
        ELSE Put(st.groundTruthImage, pixelIdx, AA_GROUND_TRUTH_RED,
                 AA_GROUND_TRUTH_GREEN, AA_GROUND_TRUTH_BLUE,
                 AA_GROUND_TRUTH_ALPHA),
     output |->
        IF antiAliased
        THEN Put(st.output, pixelIdx, AA_PIXEL_RED, AA_PIXEL_GREEN,
                 AA_PIXEL_BLUE, AA_PIXEL_ALPHA_OUTPUT)
        ELSE st.output,
     overlay |->
        IF antiAliased
        THEN Put(st.overlay, pixelIdx,
                 Composite(img.data[pixelIdx], AA_PIXEL_RED),
                 Composite(img.data[pixelIdx + 1], AA_PIXEL_GREEN),
                 Composite(img.data[pixelIdx + 2], AA_PIXEL_BLUE), 255)
        ELSE Put(st.overlay, pixelIdx, img.data[pixelIdx],
                 img.data[pixelIdx + 1], img.data[pixelIdx + 2],
                 img.data[pixelIdx + 3]),
     differentialImage |->
        PaintDifferential(st.differentialImage, pixelIdx, isSame, antiAliased)]

\* lines 115-175: the body of the loops for the pixel (px, py), on the
\* record st of the counters, the ground truth and the four rasters.
\* Not reached when doesPixelRGBDirectlyMatch throws.
PixelStep(st, px, py) ==
    Account(st, (img.width * py + px) * 4, imgNoAa.width * py + px,
            doesPixelRGBDirectlyMatch(img, imgNoAa, px, py).value,
            antialiased(img.data, px, py, img.width, img.height))

\* the numbers the script prints: a fraction n/d in lowest terms, NaN, or
\* an infinity (n its sign)
RECURSIVE GCD(_, _)
GCD(a, b) == IF b = 0 THEN a ELSE GCD(b, a % b)
Abs(a) == IF a < 0 THEN -a ELSE a
SignOf(a) == IF a < 0 THEN -1 ELSE IF a > 0 THEN 1 ELSE 0
NaN == [kind |-> "NaN", n |-> 0, d |-> 0]
Infinity(sign) == [kind |-> "Infinity", n |-> sign, d |-> 0]
Fraction(n, d) ==
    LET g == GCD(Abs(n), Abs(d))
    IN  [kind |-> "number", n |-> SignOf(d) * (n \div g), d |-> Abs(d) \div g]
Number(n) == Fraction(n, 1)

\* a / b, a * b and a + b of JavaScript numbers (the sign of a zero left out)
Divide(a, b) ==
    IF a.kind = "NaN" \/ b.kind = "NaN" THEN NaN
    ELSE IF a.kind = "Infinity"
         THEN IF b.kind = "Infinity" THEN NaN
              ELSE Infinity(IF b.n < 0 THEN -a.n ELSE a.n)
         ELSE IF b.kind = "Infinity" THEN Number(0)
              ELSE IF b.n = 0
                   THEN IF a.n = 0 THEN NaN ELSE Infinity(SignOf(a.n))
                   ELSE Fraction(a.n * b.d, a.d * b.n)
Times(a, b) ==
    IF a.kind = "NaN" \/ b.kind = "NaN" THEN NaN
    ELSE IF a.kind = "Infinity" \/ b.kind = "Infinity"
         THEN IF a.n = 0 \/ b.n = 0 THEN NaN ELSE Infinity(SignOf(a.n) * SignOf(b.n))
         ELSE Fraction(a.n * b.n, a.d * b.d)
Plus(a, b) ==
    IF a.kind = "NaN" \/ b.kind = "NaN" THEN NaN
    ELSE IF a.kind = "Infinity"
         THEN IF b.kind = "Infinity" /\ b.n # a.n THEN NaN ELSE a
         ELSE IF b.kind = "Infinity" THEN b
              ELSE Fraction(a.n * b.d + b.n * a.d, a.d * b.d)

\* line 186 with a zero denominator caught and 0 printed
Precision_guarded(r) ==
    IF r.truePositives + r.falsePositives = 0 THEN Number(0)
    ELSE Divide(Number(r.truePositives), Number(r.truePositives + r.falsePositives))
\* lines 186-188
Precision(r) ==
    Divide(Number(r.truePositives), Number(r.truePositives + r.falsePositives))
Recall(r) ==
    Divide(Number(r.truePositives), Number(r.truePositives + r.falseNegatives))
\* line 188 with the factor 2 left out
F1Score_noFactor(r) ==
    Divide(Times(Precision(r), Recall(r)), Plus(Precision(r), Recall(r)))
F1Score(r) ==
    Divide(Times(Times(Number(2), Precision(r)), Recall(r)),
           Plus(Precision(r), Recall(r)))

\* the test images of the runs: black with at most one grey and one white
\* pixel, the scenario images and the striped images
RunImages ==
    UNION {{Spotted(w, h, Black, p1, Grey, p2, c2) :
               c2 \in {Black, White},
               p1 \in 0..(w * h - 1), p2 \in 0..(w * h - 1)} :
           w \in 1..MaxW, h \in 1..MaxH}
        \cup ScenarioImages
        \cup StripedImages

\* a row of 12 greys from black upwards, each pixel but the two ends between
\* its neighbours, and its reference: the pixels 1 to 8 black
Ramp == MakeImage(12, 1, [p \in 0..11 |-> <<20 * p, 20 * p, 20 * p, 255>>])
RampReference ==
    MakeImage(12, 1, [p \in 0..11 |->
        IF p \in 1..8 THEN Black ELSE <<20 * p, 20 * p, 20 * p, 255>>])

\* the colour of a reference pixel that differs from the test pixel
Inverse(colour) == IF colour[1] < 128 THEN White ELSE Black
\* the same colour, transparent
Transparent(colour) == <<colour[1], colour[2], colour[3], 0>>

\* the reference images of a test image: the image itself, the image with
\* one pixel of another colour, the image with a pixel of the first row of
\* another alpha or with two neighbouring pixels of the first row of another
\* colour, and black images of another size
References(image) ==
    {image}
    \cup {SetPixel(image, px, py, Inverse(Pixel(image, px, py))) :
             px \in 0..(image.width - 1), py \in 0..(image.height - 1)}
    \cup {SetPixel(image, px, 0, Transparent(Pixel(image, px, 0))) :
             px \in 0..(image.width - 1)}
    \cup {SetPixel(SetPixel(image, px, 0, Inverse(Pixel(image, px, 0))),
                   px + 1, 0, Inverse(Pixel(image, px + 1, 0))) :
             px \in 0..(image.width - 2)}
    \cup {MakeImage(w, image.height, [p \in 0..(w * image.height - 1) |-> Black]) :
             w \in {image.width - 1, image.width + 1} \ {0}}
    \cup {MakeImage(image.width, h, [p \in 0..(image.width * h - 1) |-> Black]) :
             h \in {image.height - 1, image.height + 1} \ {0}}

\* lines 76-110: the images are read, the rasters and the counters made
Init ==
    /\ \/ img \in RunImages /\ imgNoAa \in References(img)
       \/ img = Ramp /\ imgNoAa = RampReference
    /\ pc = "scan" /\ x = 0 /\ y = 0
    /\ results = NoResults
    /\ groundTruth = [p \in 0..(img.width * img.height - 1) |-> 0]
    /\ groundTruthImage = NewPNG(img.width, img.height)
    /\ output = FilledPNG(img.width, img.height)
    /\ overlay = NewPNG(img.width, img.height)
    /\ differentialImage = NewPNG(img.width, img.height)
    /\ report = <<>>
    /\ written = <<>>
    /\ call = [fn |-> "none"]

RunState ==
    [results |-> results, groundTruth |-> groundTruth,
     groundTruthImage |-> groundTruthImage, output |-> output,
     overlay |-> overlay, differentialImage |-> differentialImage]

\* lines 113-177, one pass of the inner loop: the pixel (x, y).  The Error
\* thrown by doesPixelRGBDirectlyMatch is caught nowhere and ends the script.
ScanPixel ==
    /\ pc = "scan" /\ y < img.height
    /\ \/ /\ doesPixelRGBDirectlyMatch(img, imgNoAa, x, y).threw
          /\ pc' = "failed"
          /\ UNCHANGED <<x, y, results, groundTruth, groundTruthImage, output,
                         overlay, differentialImage>>
       \/ /\ ~doesPixelRGBDirectlyMatch(img, imgNoAa, x, y).threw
          /\ \E st \in {PixelStep(RunState, x, y)} :
                 /\ results' = st.results
                 /\ groundTruth' = st.groundTruth
                 /\ groundTruthImage' = st.groundTruthImage
                 /\ output' = st.output
                 /\ overlay' = st.overlay
                 /\ differentialImage' = st.differentialImage
          /\ x' = IF x + 1 < img.width THEN x + 1 ELSE 0
          /\ y' = IF x + 1 < img.width THEN y ELSE y + 1
          /\ pc' = "scan"
    /\ UNCHANGED <<img, imgNoAa, report, written, call>>

\* lines 179-188: the counts and the three metrics are printed
Report ==
    /\ pc = "scan" /\ y = img.height
    /\ report' = [aaPixels |-> results.aaPixels,
                  expectedAaPixels |-> results.expectedAaPixels,
                  truePositives |-> results.truePositives,
                  falsePositives |-> results.falsePositives,
                  falseNegatives |-> results.falseNegatives,
                  precision |-> Precision(results),
                  recall |-> Recall(results),
                  f1 |-> F1Score(results)]
    /\ pc' = "reported"
    /\ UNCHANGED <<img, imgNoAa, x, y, results, groundTruth, groundTruthImage,
                   output, overlay, differentialImage, written, call>>

\* lines 190-195: the four rasters are written
WriteRasters ==
    /\ pc = "reported"
    /\ written' = [resultPath |-> output, overlayPath |-> overlay,
                   differentialPath |-> differentialImage,
                   groundTruthPath |-> groundTruthImage]
    /\ pc' = "done"
    /\ UNCHANGED <<img, imgNoAa, x, y, results, groundTruth, groundTruthImage,
                   output, overlay, differentialImage, report, call>>

Next == ScanPixel \/ Report \/ WriteRasters

Spec == Init /\ [][Next]_vars

(***************************************************************************)
(* The body of the scan loop run for the pixels in any order.              *)
(***************************************************************************)
MaxOrderH == 1

\* lines 89-110: the counters, the ground truth and the rasters before
\* the scan
FreshState ==
    [results |-> NoResults,
     groundTruth |-> [p \in 0..(img.width * img.height - 1) |-> 0],
     groundTruthImage |-> NewPNG(img.width, img.height),
     output |-> FilledPNG(img.width, img.height),
     overlay |-> NewPNG(img.width, img.height),
     differentialImage |-> NewPNG(img.width, img.height)]

\* lines 113-177: the loops in raster order from pixel p on, the body run
\* for the pixels of the set S only
RECURSIVE ScanOver(_, _, _)
ScanOver(st, p, S) ==
    IF p >= img.width * img.height THEN st
    ELSE ScanOver(IF p \in S THEN PixelStep(st, p % img.width, p \div img.width)
                  ELSE st,
                  p + 1, S)

\* striped images of at most MaxOrderH rows and the scenario images
OrderImages ==
    {Stripes(w, h) : w \in 1..MaxW, h \in 1..MaxOrderH} \cup ScenarioImages

\* the image itself, the image with one or two neighbouring pixels of the
\* first row of another colour, and a black image one row higher
OrderReferences(image) ==
    {image}
    \cup {SetPixel(image, px, 0, Inverse(Pixel(image, px, 0))) :
             px \in 0..(image.width - 1)}
    \cup {SetPixel(SetPixel(image, px, 0, Inverse(Pixel(image, px, 0))),
                   px + 1, 0, Inverse(Pixel(image, px + 1, 0))) :
             px \in 0..(image.width - 2)}
    \cup {MakeImage(image.width, image.height + 1,
                    [p \in 0..(image.width * (image.height + 1) - 1) |-> Black])}

InitAnyOrder ==
    /\ img \in OrderImages
    /\ imgNoAa \in OrderReferences(img)
    /\ pc = "scan" /\ x = 0 /\ y = 0
    /\ results = NoResults
    /\ groundTruth = [p \in 0..(img.width * img.height - 1) |-> 0]
    /\ groundTruthImage = NewPNG(img.width, img.height)
    /\ output = FilledPNG(img.width, img.height)
    /\ overlay = NewPNG(img.width, img.height)
    /\ differentialImage = NewPNG(img.width, img.height)
    /\ report = <<>>
    /\ written = <<>>
    /\ call = [fn |-> "anyOrder", done |-> {}]

\* lines 115-175 for any pixel (px, py) not yet processed
StepAny ==
    /\ pc = "scan" /\ call.fn = "anyOrder"
    /\ \E px \in 0..(img.width - 1), py \in 0..(img.height - 1) :
          /\ py * img.width + px \notin call.done
          /\ \/ /\ doesPixelRGBDirectlyMatch(img, imgNoAa, px, py).threw
                /\ pc' = "failed"
                /\ UNCHANGED <<x, y, results, groundTruth, groundTruthImage,
                               output, overlay, differentialImage, call>>
             \/ /\ ~doesPixelRGBDirectlyMatch(img, imgNoAa, px, py).threw
                /\ \E st \in {PixelStep(RunState, px, py)} :
                       /\ results' = st.results
                       /\ groundTruth' = st.groundTruth
                       /\ groundTruthImage' = st.groundTruthImage
                       /\ output' = st.output
                       /\ overlay' = st.overlay
                       /\ differentialImage' = st.differentialImage
                /\ x' = px /\ y' = py
                /\ call' = [call EXCEPT !.done = @ \cup {py * img.width + px}]
                /\ pc' = "scan"
    /\ UNCHANGED <<img, imgNoAa, report, written>>

NextAnyOrder == StepAny

SpecAnyOrder == InitAnyOrder /\ [][NextAnyOrder]_vars

(***************************************************************************)
(* Properties of the classifier.                                           *)
(***************************************************************************)
\* the positions of the image within one cell of (cx, cy), (cx, cy) included
Near(image, cx, cy) ==
    {c \in (0..(image.width - 1)) \X (0..(image.height - 1)) :
        /\ c[1] - cx \in -1..1
        /\ c[2] - cy \in -1..1}
Siblings(image, cx, cy) == Near(image, cx, cy) \ {<<cx, cy>>}

FlatAt(image, cx, cy) ==
    \A c \in Siblings(image, cx, cy) : Pixel(image, c[1], c[2]) = Pixel(image, cx, cy)

Classified == call.fn = "antialiased"

\* C1: a pixel whose existing neighbours all have the R, G, B, A of the
\* pixel itself is classified not anti-aliased, whatever the number of
\* neighbours (8, 5, 3, 2, 1 or 0).
C1_FlatRegionRejected ==
    (Classified /\ FlatAt(img, call.x, call.y)) => call.r.ret = FALSE

\* an interior pixel with 8 identical neighbours (here transparent ones) was
\* classified
C1_Witness ==
    /\ Classified /\ FlatAt(img, call.x, call.y)
    /\ Cardinality(Siblings(img, call.x, call.y)) = 8
    /\ Pixel(img, call.x, call.y) = Ghost
    /\ call.r.ret = FALSE

\* the single pixel of a 1x1 image was classified
C1_WitnessSinglePixel ==
    /\ Classified /\ img.width = 1 /\ img.height = 1 /\ call.r.ret = FALSE

\* the brightness delta of the centre to the sibling c
DeltaTo(image, cx, cy, c) ==
    colorDelta(image.data, image.data, (cy * image.width + cx) * 4,
               (c[2] * image.width + c[1]) * 4, TRUE).y

OnBorder(image, cx, cy) ==
    cx = 0 \/ cx = image.width - 1 \/ cy = 0 \/ cy = image.height - 1

EqualSiblings(image, cx, cy) ==
    (IF OnBorder(image, cx, cy) THEN 1 ELSE 0)
    + Cardinality({c \in Siblings(image, cx, cy) : IsZero(DeltaTo(image, cx, cy, c))})

\* c comes before d in the scan (column by column)
Before(c, d) == c[1] < d[1] \/ (c[1] = d[1] /\ c[2] < d[2])

\* the first sibling in scan order of most negative / most positive delta
MostNegative(image, cx, cy) ==
    CHOOSE c \in Siblings(image, cx, cy) :
        \A d \in Siblings(image, cx, cy) \ {c} :
            \/ Less(DeltaTo(image, cx, cy, c), DeltaTo(image, cx, cy, d))
            \/ DeltaTo(image, cx, cy, c) = DeltaTo(image, cx, cy, d) /\ Before(c, d)
MostPositive(image, cx, cy) ==
    CHOOSE c \in Siblings(image, cx, cy) :
        \A d \in Siblings(image, cx, cy) \ {c} :
            \/ Less(DeltaTo(image, cx, cy, d), DeltaTo(image, cx, cy, c))
            \/ DeltaTo(image, cx, cy, c) = DeltaTo(image, cx, cy, d) /\ Before(c, d)

Between(v, a, b) == (a <= v /\ v <= b) \/ (b <= v /\ v <= a)

IsGradient(image, cx, cy) ==
    /\ EqualSiblings(image, cx, cy) <= 2
    /\ \E c \in Siblings(image, cx, cy) : Less(DeltaTo(image, cx, cy, c), Zero)
    /\ \E c \in Siblings(image, cx, cy) : Less(Zero, DeltaTo(image, cx, cy, c))
    /\ LET lo == MostNegative(image, cx, cy)
           hi == MostPositive(image, cx, cy)
       IN  \A ch \in 1..3 :
              Between(Pixel(image, cx, cy)[ch],
                      Pixel(image, lo[1], lo[2])[ch], Pixel(image, hi[1], hi[2])[ch])

\* C2: the classifier returns true exactly when at most 2 siblings count as
\* equal (the border seed included), some sibling has a negative and some a
\* positive brightness delta, and R, G and B of the centre lie between those
\* of the two extreme siblings; so true for the grey centre between black
\* and white siblings and false for the centre of the checkerboard.
C2_TrueIffGradient ==
    Classified =>
        /\ call.r.ret = IsGradient(img, call.x, call.y)
        /\ (img = Ring(Grey, Black, White) /\ call.x = 1 /\ call.y = 1)
              => call.r.ret = TRUE
        /\ (img \in {Ring(Black, White, Black), Ring(White, Black, White)}
              /\ call.x = 1 /\ call.y = 1) => call.r.ret = FALSE

C2_Witness ==
    /\ Classified /\ img = Ring(Grey, Black, White)
    /\ call.x = 1 /\ call.y = 1 /\ call.r.ret = TRUE

\* C7: the classification of (x, y) depends only on the pixels within one
\* cell of (x, y): after a pixel farther away has changed, the classifier
\* returns at (x, y) what it returned before.
C7_Local == Classified => call.r.ret = call.first

\* a pixel classified anti-aliased was classified again after a far pixel
\* had changed
C7_Witness == Classified /\ call.changed /\ call.r.ret = TRUE

\* the siblings the call visited
Visited == {call.r.visited[j] : j \in 1..Len(call.r.visited)}
\* the deltas of the call to the visited siblings
VisitedDelta(c) == DeltaTo(img, call.x, call.y, c)

\* C14: the siblings are visited column by column (x outer, y inner), the
\* centre left out, none skipped, all of them unless the scan returns
\* early; the position remembered for the most negative (most positive)
\* delta is the first visited sibling of that delta.
C14_ScanOrderFirstWins ==
    Classified =>
        /\ Visited \subseteq Siblings(img, call.x, call.y)
        /\ \A j \in 1..Len(call.r.visited), c \in Siblings(img, call.x, call.y) :
              Before(c, call.r.visited[j])
                  <=> \E i \in 1..(j - 1) : call.r.visited[i] = c
        /\ call.r.exit # "siblings" => Visited = Siblings(img, call.x, call.y)
        /\ \A c \in Visited :
              ~Less(VisitedDelta(c), call.r.min) /\ ~Less(call.r.max, VisitedDelta(c))
        /\ Less(call.r.min, Zero) =>
              /\ <<call.r.minX, call.r.minY>> \in Visited
              /\ VisitedDelta(<<call.r.minX, call.r.minY>>) = call.r.min
              /\ \A c \in Visited \ {<<call.r.minX, call.r.minY>>} :
                    VisitedDelta(c) = call.r.min
                        => Before(<<call.r.minX, call.r.minY>>, c)
        /\ Less(Zero, call.r.max) =>
              /\ <<call.r.maxX, call.r.maxY>> \in Visited
              /\ VisitedDelta(<<call.r.maxX, call.r.maxY>>) = call.r.max
              /\ \A c \in Visited \ {<<call.r.maxX, call.r.maxY>>} :
                    VisitedDelta(c) = call.r.max
                        => Before(<<call.r.maxX, call.r.maxY>>, c)

\* the grey centre between four white and four black siblings: the first
\* white and the first black sibling of the scan were remembered
C14_Witness ==
    /\ Classified /\ img = Ring(Grey, Black, White)
    /\ call.x = 1 /\ call.y = 1
    /\ call.r.visited = <<<<0, 0>>, <<0, 1>>, <<0, 2>>, <<1, 0>>, <<1, 2>>,
                          <<2, 0>>, <<2, 1>>, <<2, 2>>>>
    /\ call.r.minX = 0 /\ call.r.minY = 0
    /\ call.r.maxX = 0 /\ call.r.maxY = 1

\* the siblings of brightness delta exactly 0
ZeroSiblings(image, cx, cy) ==
    {c \in Siblings(image, cx, cy) : IsZero(DeltaTo(image, cx, cy, c))}
ZeroCount == Cardinality(ZeroSiblings(img, call.x, call.y))

\* C15: the count of equal siblings starts at 1 on the border of the image,
\* corners included, and at 0 inside; the call returns false at the
\* sibling that takes the count above 2, so on the border with two siblings
\* of delta 0 and inside with three, and never by this rule for an interior
\* pixel with only two.
C15_BorderSeed ==
    Classified =>
        /\ call.r.seed = (IF OnBorder(img, call.x, call.y) THEN 1 ELSE 0)
        /\ call.r.exit = "siblings" <=> call.r.seed + ZeroCount > 2
        /\ call.r.exit = "siblings" =>
              /\ call.r.ret = FALSE
              /\ call.r.zeroes = 3
              /\ call.r.visited[Len(call.r.visited)] \in ZeroSiblings(img, call.x, call.y)
              /\ call.r.seed + Cardinality(Visited \cap ZeroSiblings(img, call.x, call.y)) = 3
        /\ call.r.exit # "siblings" =>
              call.r.zeroes = call.r.seed + ZeroCount
        /\ (OnBorder(img, call.x, call.y) /\ ZeroCount >= 2) => call.r.exit = "siblings"
        /\ (~OnBorder(img, call.x, call.y) /\ ZeroCount = 2) => call.r.exit # "siblings"
        /\ (~OnBorder(img, call.x, call.y) /\ ZeroCount >= 3) => call.r.exit = "siblings"

\* a corner pixel with exactly two siblings of delta 0 was rejected for
\* its equal siblings
C15_Witness ==
    /\ Classified /\ call.x = 0 /\ call.y = 0
    /\ img.width > 1 /\ img.height > 1
    /\ call.r.seed = 1 /\ ZeroCount = 2 /\ call.r.exit = "siblings"

\* an interior pixel with exactly two siblings of delta 0 was classified
\* anti-aliased
C15_WitnessInterior ==
    /\ Classified /\ ~OnBorder(img, call.x, call.y)
    /\ call.r.seed = 0 /\ ZeroCount = 2 /\ call.r.ret = TRUE

\* the positions the call remembered for the two extremes
MinPosition == <<call.r.minX, call.r.minY>>
MaxPosition == <<call.r.maxX, call.r.maxY>>

\* C16: every index the call reads lies inside the buffer of 4 * width *
\* height bytes; when the interval test is reached both extremes were set,
\* to two different siblings of the pixel inside the image, whose deltas
\* are the remembered negative minimum and positive maximum.
C16_ReadsInsideBuffer ==
    Classified =>
        /\ call.r.reads \subseteq 0..(4 * img.width * img.height - 1)
        /\ call.r.reads \subseteq DOMAIN img.data
        /\ Visited # {} => \A c \in 0..3 : (call.y * img.width + call.x) * 4 + c \in call.r.reads
        /\ \A s \in Visited, c \in 0..3 : (s[2] * img.width + s[1]) * 4 + c \in call.r.reads
        /\ call.r.exit = "interval" =>
              /\ Less(call.r.min, Zero) /\ Less(Zero, call.r.max)
              /\ MinPosition \in Siblings(img, call.x, call.y)
              /\ MaxPosition \in Siblings(img, call.x, call.y)
              /\ MinPosition # MaxPosition
              /\ VisitedDelta(MinPosition) = call.r.min
              /\ VisitedDelta(MaxPosition) = call.r.max
              /\ \A c \in 0..2 :
                    /\ (call.r.minY * img.width + call.r.minX) * 4 + c \in call.r.reads
                    /\ (call.r.maxY * img.width + call.r.maxX) * 4 + c \in call.r.reads

\* the interval test was reached for the last pixel of an image, with the
\* first pixel of the image as one of the extremes
C16_Witness ==
    /\ Classified /\ call.r.exit = "interval"
    /\ call.x = img.width - 1 /\ call.y = img.height - 1
    /\ MinPosition = <<0, 0>> \/ MaxPosition = <<0, 0>>
    /\ 4 * img.width * img.height - 1 \in call.r.reads

(***************************************************************************)
(* Properties of colorDelta.                                               *)
(***************************************************************************)
Compared == call.fn = "colorDelta"

\* the alpha of the pixel at byte offset k
AlphaAt(k) == img.data[k + 3]

\* C5 as claimed: with yOnly set, swapping the two pixels reverses the sign
\* of the result, whatever the alpha of the two pixels.
C5_Antisymmetric ==
    (Compared /\ call.yOnly) => Sign(call.r) = -Sign(call.swapped)

\* C5 as amended: with yOnly set, swapping the two pixels reverses the sign
\* of the result when the two pixels have the same alpha or the two offsets
\* give the same blend background.
C5_AntisymmetricSameBlend ==
    (/\ Compared /\ call.yOnly
     /\ \/ AlphaAt(call.k) = AlphaAt(call.m)
        \/ gb(call.k) = gb(call.m) /\ bb(call.k) = bb(call.m) /\ rb(call.k) = rb(call.m))
    => Sign(call.r) = -Sign(call.swapped)

\* two different pixels of the same alpha below 255 were compared and the
\* signs were opposite and not zero
C5_Witness ==
    /\ Compared /\ call.yOnly
    /\ AlphaAt(call.k) = 128 /\ AlphaAt(call.m) = 128
    /\ Sign(call.r) = 1 /\ Sign(call.swapped) = -1

\* the pixel at byte offset k
PixelAt(k) == <<img.data[k], img.data[k + 1], img.data[k + 2], img.data[k + 3]>>

\* C12: for two pixels of identical R, G, B and A, whatever the alpha, the
\* offsets and the flag, colorDelta returns exactly 0, in both orders, and
\* does not go through the blend.
C12_IdenticalPixelsZero ==
    (Compared /\ PixelAt(call.k) = PixelAt(call.m)) =>
        /\ Sign(call.r) = 0 /\ IsZero(call.r.y) /\ ~call.r.blended
        /\ Sign(call.swapped) = 0 /\ IsZero(call.swapped.y) /\ ~call.swapped.blended

\* the full metric of two identical half-transparent pixels at different
\* offsets was computed and was 0
C12_Witness ==
    /\ Compared /\ ~call.yOnly /\ call.k # call.m
    /\ PixelAt(call.k) = PixelAt(call.m) /\ AlphaAt(call.k) = 128
    /\ Sign(call.r) = 0 /\ ~call.r.blended

\* C6 as claimed: for both values of yOnly the result is negative exactly
\* when the luma difference y = first - second is negative.
C6_SameDirection ==
    Compared => (Sign(call.r) = -1 <=> Less(call.r.y, Zero))

\* C6 as amended: with yOnly set the result is negative exactly when the
\* luma difference y = first - second is negative (the second pixel is
\* brighter); with yOnly unset it is negative exactly when y is positive
\* (the second pixel is darker).
C6_DirectionPerFlag ==
    Compared =>
        IF call.yOnly
        THEN Sign(call.r) = -1 <=> Less(call.r.y, Zero)
        ELSE Sign(call.r) = -1 <=> Less(Zero, call.r.y)

\* the full metric was computed for a darker second pixel and was negative
C6_Witness ==
    /\ Compared /\ ~call.yOnly
    /\ Less(Zero, call.r.y) /\ Sign(call.r) = -1

(***************************************************************************)
(* Properties of the evaluation run.                                       *)
(***************************************************************************)
SameSize == img.width = imgNoAa.width /\ img.height = imgNoAa.height
Scanning == pc \in {"scan", "reported", "done"}
ScanComplete == Scanning /\ y = img.height

\* the pixels the scan has processed, as indices y * width + x
Processed == 0..(y * img.width + x - 1)
PixelX(p) == p % img.width
PixelY(p) == p \div img.width

\* the classifier finds pixel p of the test image anti-aliased
Detected(p) == antialiased(img.data, PixelX(p), PixelY(p), img.width, img.height)
\* test and reference differ at pixel p in R, G or B
Differs(p) ==
    \E c \in 1..3 : Pixel(img, PixelX(p), PixelY(p))[c]
                       # Pixel(imgNoAa, PixelX(p), PixelY(p))[c]

\* the pixel p of a raster
RasterPixel(data, p) == <<data[4 * p], data[4 * p + 1], data[4 * p + 2], data[4 * p + 3]>>

\* C3: after every processed pixel and at the end of the scan,
\* truePositives + falseNegatives = expectedAaPixels and
\* truePositives + falsePositives = aaPixels.
C3_CountsAddUp ==
    Scanning =>
        /\ results.truePositives + results.falseNegatives = results.expectedAaPixels
        /\ results.truePositives + results.falsePositives = results.aaPixels

\* a scan ended with a true positive, a false positive and a false negative
C3_Witness ==
    /\ ScanComplete
    /\ results.truePositives >= 1 /\ results.falsePositives >= 1
    /\ results.falseNegatives >= 1

\* C4: when the reference image has another width or height than the test
\* image, the run ends in failure at its first pixel: no counter has
\* moved, no raster byte is painted, nothing is reported or written.
C4_SizeMismatchFatal ==
    ~SameSize =>
        /\ pc \in {"scan", "failed"}
        /\ x = 0 /\ y = 0
        /\ pc = "failed" => ~ENABLED Next
        /\ results = NoResults
        /\ \A p \in DOMAIN groundTruth : groundTruth[p] = 0
        /\ groundTruthImage = NewPNG(img.width, img.height)
        /\ overlay = NewPNG(img.width, img.height)
        /\ differentialImage = NewPNG(img.width, img.height)
        /\ output = FilledPNG(img.width, img.height)
        /\ report = <<>> /\ written = <<>>

\* a run with a reference of another height has failed
C4_Witness ==
    pc = "failed" /\ img.width = imgNoAa.width /\ img.height # imgNoAa.height

\* C8: the ground truth of a processed pixel is 1 exactly when test and
\* reference differ there in R, G or B, whatever their alpha, and
\* expectedAaPixels counts these pixels; so it is 0 at the end of the run
\* when the reference has the RGB of the test image everywhere.
C8_GroundTruthIsRGBDifference ==
    (Scanning /\ SameSize) =>
        /\ \A p \in Processed : groundTruth[p] = 1 <=> Differs(p)
        /\ \A p \in Processed : groundTruth[p] \in {0, 1}
        /\ results.expectedAaPixels = Cardinality({p \in Processed : Differs(p)})
        /\ (ScanComplete /\ \A p \in Processed : ~Differs(p))
              => results.expectedAaPixels = 0

\* a run whose reference differs from the test image in alpha only ended
\* with no expected anti-aliased pixel
C8_Witness ==
    /\ pc = "done" /\ imgNoAa # img /\ SameSize
    /\ results.expectedAaPixels = 0

\* C9: a metric whose denominator is zero is reported as NaN; a run fails
\* only on images of different sizes, and once the scan is over it reports
\* all the metrics and writes the four rasters.
C9_ZeroDenominatorIsNaN ==
    /\ pc = "failed" => ~SameSize
    /\ pc = "reported" => ENABLED WriteRasters
    /\ pc \in {"reported", "done"} =>
        /\ DOMAIN report = {"aaPixels", "expectedAaPixels", "truePositives",
                            "falsePositives", "falseNegatives", "precision",
                            "recall", "f1"}
        /\ results.truePositives + results.falsePositives = 0
              => report.precision = NaN
        /\ results.truePositives + results.falseNegatives = 0
              => report.recall = NaN
        /\ (report.precision = NaN \/ report.recall = NaN
              \/ Plus(report.precision, report.recall) = Number(0))
              => report.f1 = NaN
    /\ pc = "done" =>
        /\ DOMAIN written = {"resultPath", "overlayPath", "differentialPath",
                             "groundTruthPath"}
        /\ written.resultPath = output /\ written.overlayPath = overlay
        /\ written.differentialPath = differentialImage
        /\ written.groundTruthPath = groundTruthImage

\* a run with no anti-aliased pixel found and none expected is done
C9_Witness ==
    /\ pc = "done"
    /\ results.truePositives + results.falsePositives = 0
    /\ results.truePositives + results.falseNegatives = 0
    /\ report.precision = NaN /\ report.recall = NaN /\ report.f1 = NaN

\* a run with precision 0 and recall 0, so with precision + recall = 0, is done
C9_WitnessF1 ==
    /\ pc = "done"
    /\ report.precision = Number(0) /\ report.recall = Number(0)
    /\ report.f1 = NaN

\* the counters of the run as numbers
TP == results.truePositives
FP == results.falsePositives
FN == results.falseNegatives

\* the number v is the quotient n / d of two integers, d not 0
IsQuotient(v, n, d) == v.kind = "number" /\ v.n * d = n * v.d

\* C11: nothing is reported before the scan is over; the report made after
\* it holds precision = TP / (TP + FP), recall = TP / (TP + FN) and
\* F1 = 2 * precision * recall / (precision + recall), which is
\* 2 TP / (2 TP + FP + FN) when TP > 0, and is not changed afterwards; for
\* TP = 8, FP = 2, FN = 0 they are 4/5, 1 and 8/9.
C11_Metrics ==
    /\ pc \in {"scan", "failed"} => report = <<>>
    /\ pc \in {"reported", "done"} =>
        /\ y = img.height
        /\ TP + FP > 0 => IsQuotient(report.precision, TP, TP + FP)
        /\ TP + FN > 0 => IsQuotient(report.recall, TP, TP + FN)
        /\ TP > 0 => IsQuotient(report.f1, 2 * TP, 2 * TP + FP + FN)
        /\ (TP + FP > 0 /\ TP + FN > 0 /\ TP > 0) =>
              report.f1 = Divide(Times(Times(Number(2), report.precision),
                                       report.recall),
                                 Plus(report.precision, report.recall))
        /\ (TP = 8 /\ FP = 2 /\ FN = 0) =>
              /\ report.precision = [kind |-> "number", n |-> 4, d |-> 5]
              /\ report.recall = [kind |-> "number", n |-> 1, d |-> 1]
              /\ report.f1 = [kind |-> "number", n |-> 8, d |-> 9]

\* a run ended with 8 true positives, 2 false positives and no false
\* negative, and reported the F1 score 8/9
C11_Witness ==
    /\ pc = "done" /\ TP = 8 /\ FP = 2 /\ FN = 0
    /\ report.f1 = [kind |-> "number", n |-> 8, d |-> 9]

\* all the pixels of the image
AllPixels == 0..(img.width * img.height - 1)

\* C13: whatever the order in which the pixels are processed, the counters,
\* the ground truth and the four rasters are those of the raster-order scan
\* over the same pixels, so the final ones are those of the raster-order
\* scan; the pixels not yet processed are untouched in every raster and the
\* pixel classified in a step is anti-aliased in the output raster exactly
\* when the classifier says so on the source image.
C13_AnyOrder ==
    call.fn = "anyOrder" =>
        /\ pc \in {"scan", "failed"}
        /\ pc = "failed" => (~SameSize /\ ~ENABLED StepAny)
        /\ ~SameSize => call.done = {} /\ RunState = FreshState
        /\ SameSize =>
              /\ RunState = ScanOver(FreshState, 0, call.done)
              /\ \A p \in AllPixels \ call.done :
                    /\ groundTruth[p] = 0
                    /\ RasterPixel(output, p) = <<255, 255, 255, 255>>
                    /\ RasterPixel(overlay, p) = <<0, 0, 0, 0>>
                    /\ RasterPixel(differentialImage, p) = <<0, 0, 0, 0>>
                    /\ RasterPixel(groundTruthImage, p) = <<0, 0, 0, 0>>
              /\ \A p \in call.done :
                    RasterPixel(output, p)
                        = <<AA_PIXEL_RED, AA_PIXEL_GREEN, AA_PIXEL_BLUE,
                            AA_PIXEL_ALPHA_OUTPUT>>
                    <=> Detected(p)
              /\ results.aaPixels = Cardinality({p \in call.done : Detected(p)})

\* the pixels of the 3x3 grey ring were all processed, the last one first,
\* and the centre was found anti-aliased
C13_Witness ==
    /\ call.fn = "anyOrder" /\ call.done = AllPixels
    /\ img = Ring(Grey, Black, White) /\ imgNoAa # img
    /\ x = 0 /\ y = 0
    /\ results.aaPixels >= 1
    /\ RunState = ScanOver(FreshState, 0, AllPixels)

FalsePositiveColour ==
    <<AA_FALSE_POSITIVE_RED, AA_FALSE_POSITIVE_GREEN, AA_FALSE_POSITIVE_BLUE,
      AA_FALSE_POSITIVE_ALPHA>>
FalseNegativeColour ==
    <<AA_FALSE_NEGATIVE_RED, AA_FALSE_NEGATIVE_GREEN, AA_FALSE_NEGATIVE_BLUE,
      AA_FALSE_NEGATIVE_ALPHA>>

\* C10: after a complete scan a pixel of the differential raster is
\* (255,0,0,255) exactly when the classifier says anti-aliased and the
\* ground truth does not, (0,0,255,255) exactly when the ground truth says
\* anti-aliased and the classifier does not, and (0,0,0,0) otherwise; the
\* painted pixels are falsePositives + falseNegatives in number.
C10_DifferentialRaster ==
    (ScanComplete /\ SameSize) =>
        /\ \A p \in Processed :
              /\ RasterPixel(differentialImage, p) = FalsePositiveColour
                    <=> (Detected(p) /\ ~Differs(p))
              /\ RasterPixel(differentialImage, p) = FalseNegativeColour
                    <=> (~Detected(p) /\ Differs(p))
              /\ RasterPixel(differentialImage, p) = <<0, 0, 0, 0>>
                    <=> (Detected(p) <=> Differs(p))
        /\ Cardinality({p \in Processed :
                           RasterPixel(differentialImage, p) # <<0, 0, 0, 0>>})
              = results.falsePositives + results.falseNegatives

\* a scan ended with a false positive, a false negative and a true
\* positive, the last one left blank
C10_Witness ==
    /\ ScanComplete /\ SameSize
    /\ \E p \in Processed : RasterPixel(differentialImage, p) = FalsePositiveColour
    /\ \E p \in Processed : RasterPixel(differentialImage, p) = FalseNegativeColour
    /\ \E p \in Processed :
          Detected(p) /\ Differs(p) /\ RasterPixel(differentialImage, p) = <<0, 0, 0, 0>>

====
